---- MODULE Spec2Model ----
(***************************************************************************)
(* A model of the term-document index of tejasshah93/meta:                 *)
(*   - RAMIndex (ram_index.cpp): the two constructors, BM25 scoring,        *)
(*     search with its OpenMP parallel loop, classifyKNN, getAvgDocLength;  *)
(*   - index::chunk (chunk.h): the sorted postings chunk, merge_with and    *)
(*     the size-ordered chunk merge scheduler.                              *)
(*                                                                          *)
(* Strings are sequences of one-character strings, so that the string       *)
(* operations of the code (find_last_of, find_first_of, substr, +) are      *)
(* computed and not assumed.  Doubles are modelled in fixed point (units    *)
(* of 1/1000) with an explicit NaN; std::log is a table over the values     *)
(* its argument can take.                                                   *)
(***************************************************************************)
EXTENDS Integers, Sequences, FiniteSets, TLC

VARIABLES
    \* ---- RAMIndex
    pc,             \* "new" | "ready" | "crashed"
    avgRepr,        \* the arithmetic type of _avgDocLength: "size_t" | "double"
    sources,        \* the constructor's argument (indexFiles / indexDocs)
    ctor,           \* which constructor ran: "files" | "docs" | "none"
    documents,      \* _documents
    docFreqs,       \* _docFreqs (0: no entry)
    avgDocLength,   \* _avgDocLength as a fraction num/den (den = 0: NaN)
    divisor,        \* the divisor of "_avgDocLength /= _documents.size()", -1 before
    ret,            \* the last public call and what it returned
    \* ---- RAMIndex::search, one OpenMP iteration per document
    sQuery,         \* the query of the running search
    task,           \* task[idx]: "idle" | "wait" | "critical" | "done"
    ranks,          \* the multimap<double, string> ranks, in iteration order
    \* ---- chunk::merge_with
    files,          \* the file system: path -> postings file, or NoFile
    chunkSize,      \* chunk._size of the chunk at each path
    mergeIn,        \* the files as they were before the merge
    \* ---- chunk merge scheduler
    pending,        \* the priority structure of pending chunks
    sizes,          \* size() of each chunk
    inflight,       \* the pairs <<first, second>> that workers are merging
    mergeLog,       \* the sizes of the pairs selected so far
    removed,        \* chunks whose backing file has been deleted
    initSizes,      \* the sizes of the chunks the scheduler started with
    serial          \* no merge so far ran beside another or found shared keys

indexVars == <<pc, avgRepr, sources, ctor, documents, docFreqs, avgDocLength, divisor, ret>>
searchVars == <<sQuery, task, ranks>>
mergeVars == <<files, chunkSize, mergeIn>>
schedVars == <<pending, sizes, inflight, mergeLog, removed, initSizes, serial>>
vars == <<indexVars, searchVars, mergeVars, schedVars>>

-----------------------------------------------------------------------------
\* Bounds of the model.

MaxDocs == 2
MaxFreq == 1
MaxK == 2

\* TermIDs of the vocabulary.
Terms == {1, 2}

Max(a, b) == IF a >= b THEN a ELSE b
Min(a, b) == IF a <= b THEN a ELSE b

RECURSIVE SumOver(_, _)
SumOver(S, f) ==
    IF S = {} THEN 0
    ELSE LET x == CHOOSE y \in S : TRUE IN f[x] + SumOver(S \ {x}, f)

\* The orders in which the elements of S can be visited.
Orders(S) ==
    {o \in [1..Cardinality(S) -> S] : \A i, j \in 1..Cardinality(S) : o[i] = o[j] => i = j}

-----------------------------------------------------------------------------
\* std::string

\* std::string::npos: the largest size_t, so that npos + 1 = 0.
NPOS == -1

\* s.find_last_of(ch): the 0-based position of the last ch, or npos.
FindLastOf(s, ch) ==
    IF \E i \in 1..Len(s) : s[i] = ch
    THEN (CHOOSE i \in 1..Len(s) : s[i] = ch /\ \A j \in (i+1)..Len(s) : s[j] # ch) - 1
    ELSE NPOS

\* s.find_first_of(ch): the 0-based position of the first ch, or npos.
FindFirstOf(s, ch) ==
    IF \E i \in 1..Len(s) : s[i] = ch
    THEN (CHOOSE i \in 1..Len(s) : s[i] = ch /\ \A j \in 1..(i-1) : s[j] # ch) - 1
    ELSE NPOS

\* s.substr(pos, count): count = npos takes the rest of the string.
Substr(s, pos, count) ==
    IF count = NPOS THEN SubSeq(s, pos + 1, Len(s))
    ELSE SubSeq(s, pos + 1, Min(pos + count, Len(s)))

getName(path) ==
    LET idx == FindLastOf(path, "/") + 1
    IN Substr(path, idx, Len(path) - idx)

getCategory(path) ==
    LET idx == FindLastOf(path, "/")
        sub == Substr(path, 0, idx)
    IN getName(sub)

-----------------------------------------------------------------------------
\* Documents

\* The path of the i-th source: "category/name".
Paths ==
    << <<"s", "/", "a">>, <<"x", "/", "t", "/", "b", " ", "c">>,
       <<"s", "/", "d">>, <<"e">> >>

PathOf(i) == Paths[((i - 1) % Len(Paths)) + 1]

FreqMaps == [Terms -> 0..MaxFreq]

\* The inputs of a constructor: up to MaxDocs sources, each a path and the
\* term counts of its text.
SourceLists ==
    UNION {[1..n -> FreqMaps] : n \in 0..MaxDocs}

\* Document: name, category, per-term frequencies, length = total term count.
Document(name, category, freqs) ==
    [name |-> name, category |-> category, freqs |-> freqs,
     length |-> SumOver(Terms, freqs)]

\* tokenizer->tokenize(file, document, &_docFreqs): fills the document's
\* frequencies from the text of the file ...
TokenizeDoc(i, content) ==
    Document(getName(PathOf(i)), getCategory(PathOf(i)), content)

\* ... and counts the document once for every term it holds.
TokenizeFreqs(dfs, content) ==
    [t \in Terms |-> IF content[t] > 0 THEN dfs[t] + 1 ELSE dfs[t]]

NoFreqs == [t \in Terms |-> 0]

\* The queries: Documents whose frequencies are the query's term counts.
Queries == {Document(<<"q">>, <<"q">>, f) : f \in FreqMaps}

-----------------------------------------------------------------------------
\* RAMIndex: construction

\* combineMap(newFreqs): the loop runs over _docFreqs itself, and adds every
\* entry's own count to that entry; newFreqs is not read.
combineMap(dfs, newFreqs) ==
    [t \in Terms |-> dfs[t] + dfs[t]]

\* The loop of RAMIndex(indexFiles, tokenizer) over the first n sources.
RECURSIVE FilesLoop(_, _)
FilesLoop(srcs, n) ==
    IF n = 0 THEN [docs |-> << >>, dfs |-> NoFreqs, total |-> 0]
    ELSE LET prev == FilesLoop(srcs, n - 1)
             document == TokenizeDoc(n, srcs[n])
         IN [docs |-> Append(prev.docs, document),
             dfs |-> TokenizeFreqs(prev.dfs, srcs[n]),
             total |-> prev.total + document.length]

\* The loop of RAMIndex(indexDocs, tokenizer) over the first n Documents.
RECURSIVE DocsLoop(_, _)
DocsLoop(docs, n) ==
    IF n = 0 THEN [docs |-> docs, dfs |-> NoFreqs, total |-> 0]
    ELSE LET prev == DocsLoop(docs, n - 1)
         IN [docs |-> docs,
             dfs |-> combineMap(prev.dfs, docs[n].freqs),
             total |-> prev.total + docs[n].length]

\* "_avgDocLength /= _documents.size()": the outcomes, as [pc, avg].  The
\* member is declared in ram_index.h; getAvgDocLength returns it as a size_t,
\* and both arithmetic types it can have are modelled.  A size_t divides with
\* truncation, and its division by zero is undefined: the process traps, or
\* goes on with some value.  A double keeps the quotient, and 0.0 / 0 is NaN.
DivideAvg(total, n, repr) ==
    IF repr = "size_t"
    THEN IF n = 0
         THEN {[pc |-> "crashed", avg |-> [num |-> 0, den |-> 1]],
               [pc |-> "ready", avg |-> [num |-> 0, den |-> 1]]}
         ELSE {[pc |-> "ready", avg |-> [num |-> total \div n, den |-> 1]]}
    ELSE {[pc |-> "ready", avg |-> [num |-> total, den |-> n]]}

AvgReprs == {"size_t", "double"}

ConstructFromFiles ==
    /\ pc = "new"
    /\ \E srcs \in SourceLists, repr \in AvgReprs :
         LET built == FilesLoop(srcs, Len(srcs)) IN
         \E out \in DivideAvg(built.total, Len(built.docs), repr) :
            /\ sources' = srcs
            /\ ctor' = "files"
            /\ avgRepr' = repr
            /\ documents' = built.docs
            /\ docFreqs' = built.dfs
            /\ divisor' = Len(built.docs)
            /\ avgDocLength' = out.avg
            /\ pc' = out.pc
    /\ UNCHANGED <<ret, searchVars, mergeVars, schedVars>>

ConstructFromDocs ==
    /\ pc = "new"
    /\ \E srcs \in SourceLists, repr \in AvgReprs :
         LET indexDocs == [i \in 1..Len(srcs) |-> TokenizeDoc(i, srcs[i])]
             built == DocsLoop(indexDocs, Len(indexDocs)) IN
         \E out \in DivideAvg(built.total, Len(built.docs), repr) :
            /\ sources' = srcs
            /\ ctor' = "docs"
            /\ avgRepr' = repr
            /\ documents' = built.docs
            /\ docFreqs' = built.dfs
            /\ divisor' = Len(built.docs)
            /\ avgDocLength' = out.avg
            /\ pc' = out.pc
    /\ UNCHANGED <<ret, searchVars, mergeVars, schedVars>>

\* The public calls are const member functions: none changes the index, so
\* every call meets the index as the constructor left it, and a behaviour
\* makes one call.
NoCallYet == ret.op = "none"

\* size_t getAvgDocLength(): the conversion to size_t truncates.  (The call
\* is left out for a NaN average, whose conversion is undefined; that is the
\* index of zero documents only.)
getAvgDocLength == avgDocLength.num \div avgDocLength.den

GetAvgDocLength ==
    /\ pc = "ready"
    /\ NoCallYet
    /\ avgDocLength.den > 0
    /\ ret' = [op |-> "getAvgDocLength", value |-> getAvgDocLength]
    /\ UNCHANGED <<pc, avgRepr, sources, ctor, documents, docFreqs, avgDocLength, divisor>>
    /\ UNCHANGED <<searchVars, mergeVars, schedVars>>

-----------------------------------------------------------------------------
\* RAMIndex: BM25

\* k1 = 1.5, b = 0.75, k3 = 500
K1Num == 3
K1Den == 2
BNum == 3
BDen == 4
K3 == 500

\* 1000 * ln(n) for the odd n that 2 * numDocs + 1 can be.
LnOdd(n) ==
    CASE n = 1 -> 0
      [] n = 3 -> 1099
      [] n = 5 -> 1609
      [] n = 7 -> 1946
      [] n = 9 -> 2197
      [] n = 11 -> 2398
      [] n = 13 -> 2565

\* IDF = log((numDocs - docFreq + 0.5) / (docFreq + 0.5)), in 1/1000.
IDF(numDocs, docFreq) ==
    LnOdd(2 * (numDocs - docFreq) + 1) - LnOdd(2 * docFreq + 1)

\* TF = ((k1 + 1) * tf) / (k1 * ((1 - b) + b * docLength / avg) + tf) as the
\* fraction num/den, for avg = p/q.  den = 0 exactly when docLength / avg is
\* 0 / 0 (NaN); with avg = 0 and docLength > 0 the quotient is +inf and TF 0.
TFNum(tf, docLength, avg) ==
    (K1Num + K1Den) * tf * BDen * avg.num

TFDen(tf, docLength, avg) ==
    K1Num * ((BDen - BNum) * avg.num + BNum * docLength * avg.den)
        + tf * K1Den * BDen * avg.num

\* QTF = ((k3 + 1) * qtf) / (k3 + qtf), in 1/1000.
QTF(queryTermFreq) ==
    ((K3 + 1) * queryTermFreq * 1000) \div (K3 + queryTermFreq)

\* x / y rounded towards zero.
Quot(x, y) == IF x >= 0 THEN x \div y ELSE -((-x) \div y)

\* One term's IDF * TF * QTF, in 1/1000.
TermScore(document, query, term, dfs, numDocs, avg) ==
    LET termFreq == document.freqs[term]
        queryTermFreq == query.freqs[term]
        num == TFNum(termFreq, document.length, avg)
        den == TFDen(termFreq, document.length, avg)
    IN Quot(Quot(IDF(numDocs, dfs[term]) * num, den) * QTF(queryTermFreq), 1000)

\* The terms the loop of scoreDocument visits: those of the query.
QueryTerms(query) == {t \in Terms : query.freqs[t] > 0}

\* scoreDocument(document, query): [nan, v], v in 1/1000.
scoreDocument(document, query, dfs, numDocs, avg) ==
    LET visited == QueryTerms(query)
        isNan == \E t \in visited : TFDen(document.freqs[t], document.length, avg) = 0
    IN IF isNan THEN [nan |-> TRUE, v |-> 0]
       ELSE [nan |-> FALSE,
             v |-> SumOver(visited,
                     [t \in visited |-> TermScore(document, query, t, dfs, numDocs, avg)])]

Score(idx, query) ==
    scoreDocument(documents[idx], query, docFreqs, Len(documents), avgDocLength)

\* "score != 0.0": true of NaN.
NonZero(score) == score.nan \/ score.v # 0

\* std::less<double>: false whenever an operand is NaN.
Less(a, b) == ~a.nan /\ ~b.nan /\ a.v < b.v

-----------------------------------------------------------------------------
\* RAMIndex: search

\* _documents[idx].getName() + " (" + _documents[idx].getCategory() + ")"
Label(document) ==
    document.name \o <<" ", "(">> \o document.category \o <<")">>

\* multimap::insert: at the upper bound of the key, that is before the first
\* entry whose key is greater, and at the end when there is none.
Insert(rs, entry) ==
    LET greater == {i \in 1..Len(rs) : Less(entry.key, rs[i].key)}
        at == IF greater = {} THEN Len(rs) + 1
              ELSE CHOOSE i \in greater : \A j \in greater : i <= j
    IN SubSeq(rs, 1, at - 1) \o <<entry>> \o SubSeq(rs, at, Len(rs))

\* One iteration of the loop of search: the body for document idx.
SearchBody(rs, idx, query) ==
    LET score == Score(idx, query)
    IN IF NonZero(score)
       THEN Insert(rs, [key |-> score, value |-> Label(documents[idx])])
       ELSE rs

\* The loop of search when its iterations run to completion in the order
\* order[1], ..., order[n] (OpenMP fixes no order).
RECURSIVE SearchLoop(_, _, _)
SearchLoop(query, order, n) ==
    IF n = 0 THEN << >>
    ELSE SearchBody(SearchLoop(query, order, n - 1), order[n], query)

DocIds == 1..Len(documents)

Search ==
    /\ pc = "ready"
    /\ NoCallYet
    /\ \E query \in Queries, order \in Orders(DocIds) :
         ret' = [op |-> "search", query |-> query,
                 ranks |-> SearchLoop(query, order, Len(order))]
    /\ UNCHANGED <<pc, avgRepr, sources, ctor, documents, docFreqs, avgDocLength, divisor>>
    /\ UNCHANGED <<searchVars, mergeVars, schedVars>>

\* ---- the same loop, one step of one iteration at a time

BeginSearch ==
    /\ pc = "ready"
    /\ NoCallYet
    /\ \E query \in Queries : sQuery' = query
    /\ task' = [idx \in DocIds |-> "idle"]
    /\ ranks' = << >>
    /\ pc' = "searching"
    /\ UNCHANGED <<avgRepr, sources, ctor, documents, docFreqs, avgDocLength, divisor, ret>>
    /\ UNCHANGED <<mergeVars, schedVars>>

\* The loop without its critical block.
CriticalUnguarded == TRUE

\* "#pragma omp critical": no thread is inside the block.
CriticalFree == \A idx \in DOMAIN task : task[idx] # "critical"

\* double score = scoreDocument(...); if(score != 0.0)
\* (the team has a thread for every iteration: any smaller team runs a
\* subset of these interleavings)
ScoreStep(idx) ==
    /\ pc = "searching"
    /\ task[idx] = "idle"
    /\ task' = [task EXCEPT ![idx] =
                  IF NonZero(Score(idx, sQuery)) THEN "wait" ELSE "done"]
    /\ UNCHANGED <<sQuery, ranks, indexVars, mergeVars, schedVars>>

\* entering the critical block
EnterCritical(idx) ==
    /\ pc = "searching"
    /\ task[idx] = "wait"
    /\ CriticalFree
    /\ task' = [task EXCEPT ![idx] = "critical"]
    /\ UNCHANGED <<sQuery, ranks, indexVars, mergeVars, schedVars>>

\* ranks.insert(make_pair(score, label)), and leaving the block
InsertStep(idx) ==
    /\ pc = "searching"
    /\ task[idx] = "critical"
    /\ ranks' = Insert(ranks, [key |-> Score(idx, sQuery),
                               value |-> Label(documents[idx])])
    /\ task' = [task EXCEPT ![idx] = "done"]
    /\ UNCHANGED <<sQuery, indexVars, mergeVars, schedVars>>

\* the end of the parallel region: return ranks
EndSearch ==
    /\ pc = "searching"
    /\ \A idx \in DOMAIN task : task[idx] = "done"
    /\ pc' = "searched"
    /\ ret' = [op |-> "search", query |-> sQuery, ranks |-> ranks]
    /\ UNCHANGED <<avgRepr, sources, ctor, documents, docFreqs, avgDocLength, divisor>>
    /\ UNCHANGED <<searchVars, mergeVars, schedVars>>

-----------------------------------------------------------------------------
\* RAMIndex: classifyKNN

NoResults == <<"[", "n", "o", " ", "r", "e", "s", "u", "l", "t", "s", "]">>

\* The loop with "++numResults != k": it stops before the k-th result, and
\* for k = 0 only at rend.
NumVisitedPreIncrement(ranking, k) ==
    IF k = 0 THEN Len(ranking) ELSE Min(k - 1, Len(ranking))

\* The number of results the first loop visits: it stops at rend, or when
\* "numResults++ != k" fails, which is after k results.
NumVisited(ranking, k) == Min(k, Len(ranking))

\* The category of one result: the text after the first space of its value.
ResultCategory(value) ==
    LET space == FindFirstOf(value, " ") + 1
    IN Substr(value, space, Len(value) - space)

\* counts, after the first loop: the results are visited from rbegin.
Counts(ranking, k) ==
    LET visited == {Len(ranking) - j + 1 : j \in 1..NumVisited(ranking, k)}
        keys == {ResultCategory(ranking[i].value) : i \in visited}
    IN [c \in keys |->
          Cardinality({i \in visited : ResultCategory(ranking[i].value) = c})]

\* The second loop over the first n entries of counts, visited in keyOrder.
RECURSIVE BestLoop(_, _, _)
BestLoop(counts, keyOrder, n) ==
    IF n = 0 THEN [best |-> NoResults, high |-> 0]
    ELSE LET prev == BestLoop(counts, keyOrder, n - 1)
             it == keyOrder[n]
         IN IF counts[it] > prev.high
            THEN [best |-> it, high |-> counts[it]]
            ELSE prev

classifyKNN(ranking, k, keyOrder) ==
    BestLoop(Counts(ranking, k), keyOrder, Len(keyOrder)).best

ClassifyKNN ==
    /\ pc = "ready"
    /\ NoCallYet
    /\ \E query \in Queries, k \in 0..MaxK, order \in Orders(DocIds) :
         LET ranking == SearchLoop(query, order, Len(order)) IN
         \E keyOrder \in Orders(DOMAIN Counts(ranking, k)) :
            ret' = [op |-> "classifyKNN", query |-> query, k |-> k,
                    ranks |-> ranking,
                    best |-> classifyKNN(ranking, k, keyOrder)]
    /\ UNCHANGED <<pc, avgRepr, sources, ctor, documents, docFreqs, avgDocLength, divisor>>
    /\ UNCHANGED <<searchVars, mergeVars, schedVars>>

-----------------------------------------------------------------------------
\* index::chunk: a sorted run of postings records in a file

MaxCount == 2
MaxChunks == 4
MaxChunkSize == 4
MaxOverlap == 1
NumWorkers == 2

PrimaryKeys == {1, 2}
SecondaryKeys == {1, 2}

\* The elements of a set of numbers, in increasing order.
RECURSIVE Ascending(_)
Ascending(S) ==
    IF S = {} THEN << >>
    ELSE LET least == CHOOSE x \in S : \A y \in S : x <= y
         IN <<least>> \o Ascending(S \ {least})

\* The (secondary key, count) lists of one primary key: keys increasing.
PairLists ==
    UNION {{[i \in 1..Cardinality(S) |-> [sk |-> Ascending(S)[i], count |-> c[Ascending(S)[i]]]] :
               c \in [S -> 1..MaxCount]} : S \in (SUBSET SecondaryKeys) \ {{}}}

\* The postings files: records in strictly increasing primary key order.
PostingsFiles ==
    UNION {{[i \in 1..Cardinality(P) |-> [pk |-> Ascending(P)[i], pairs |-> l[Ascending(P)[i]]]] :
               l \in [P -> PairLists]} : P \in SUBSET PrimaryKeys}

ChunkPaths == {"A", "B"}

\* The entry of a path: whether the file exists, and its postings.
File(postings) == [exists |-> TRUE, postings |-> postings]
NoFile == [exists |-> FALSE, postings |-> << >>]

\* set_size(): the size of the file, one unit for every key and count in it.
FileSize(file) ==
    SumOver(1..Len(file), [i \in 1..Len(file) |-> 1 + 2 * Len(file[i].pairs)])

\* A merge that keeps the first file's count of a shared secondary key.
RECURSIVE MergePairsKeepFirst(_, _)
MergePairsKeepFirst(p, q) ==
    IF p = << >> THEN q
    ELSE IF q = << >> THEN p
    ELSE IF Head(p).sk < Head(q).sk THEN <<Head(p)>> \o MergePairsKeepFirst(Tail(p), q)
    ELSE IF Head(q).sk < Head(p).sk THEN <<Head(q)>> \o MergePairsKeepFirst(p, Tail(q))
    ELSE <<Head(p)>> \o MergePairsKeepFirst(Tail(p), Tail(q))

\* The merge of the postings of one primary key present in both files: the
\* counts of a secondary key present in both are summed.
RECURSIVE MergePairs(_, _)
MergePairs(p, q) ==
    IF p = << >> THEN q
    ELSE IF q = << >> THEN p
    ELSE IF Head(p).sk < Head(q).sk THEN <<Head(p)>> \o MergePairs(Tail(p), q)
    ELSE IF Head(q).sk < Head(p).sk THEN <<Head(q)>> \o MergePairs(p, Tail(q))
    ELSE <<[sk |-> Head(p).sk, count |-> Head(p).count + Head(q).count]>>
             \o MergePairs(Tail(p), Tail(q))

\* The two-pointer merge of two files, primary keys in increasing order.
RECURSIVE MergePostings(_, _)
MergePostings(a, b) ==
    IF a = << >> THEN b
    ELSE IF b = << >> THEN a
    ELSE IF Head(a).pk < Head(b).pk THEN <<Head(a)>> \o MergePostings(Tail(a), b)
    ELSE IF Head(b).pk < Head(a).pk THEN <<Head(b)>> \o MergePostings(a, Tail(b))
    ELSE <<[pk |-> Head(a).pk, pairs |-> MergePairs(Head(a).pairs, Head(b).pairs)]>>
             \o MergePostings(Tail(a), Tail(b))

\* self.merge_with(other): self's file holds the merge, its size is set
\* again, and other's file is deleted.
MergeWith(self, other) ==
    /\ self # other
    /\ files[self].exists
    /\ files[other].exists
    /\ LET merged == MergePostings(files[self].postings, files[other].postings) IN
         /\ files' = [files EXCEPT ![self] = File(merged), ![other] = NoFile]
         /\ chunkSize' = [chunkSize EXCEPT ![self] = FileSize(merged)]
    /\ mergeIn' = [merged |-> TRUE, self |-> self, other |-> other,
                   a |-> files[self].postings, b |-> files[other].postings]
    /\ UNCHANGED <<indexVars, searchVars, schedVars>>

-----------------------------------------------------------------------------
\* The chunk merge scheduler

\* An order of chunks by path instead of size.
ChunkLessByPath(a, b) == a < b

\* chunk::operator<: by size.
ChunkLess(a, b) == sizes[a] < sizes[b]

\* c is a least chunk of S.
Smallest(c, S) == c \in S /\ \A d \in S : ~ChunkLess(d, c)

\* A selection that leaves the second chunk pending.
PendingKeepsSecond(first, second) == pending \ {first}

\* The pending chunks once first and second have been taken out.
PendingAfterSelect(first, second) == pending \ {first, second}

\* An idle worker takes the two smallest pending chunks.
Select ==
    /\ Cardinality(inflight) < NumWorkers
    /\ Cardinality(pending) >= 2
    /\ \E first \in pending :
         /\ Smallest(first, pending)
         /\ \E second \in pending \ {first} :
              /\ Smallest(second, pending \ {first})
              /\ inflight' = inflight \cup {<<first, second>>}
              /\ pending' = PendingAfterSelect(first, second)
              /\ mergeLog' = Append(mergeLog, <<sizes[first], sizes[second]>>)
    /\ serial' = (serial /\ inflight = {})
    /\ UNCHANGED <<sizes, removed, initSizes>>
    /\ UNCHANGED <<indexVars, searchVars, mergeVars>>

\* A worker's merge_with ends: the first chunk holds both, with its size
\* set again (shared keys are stored once), the second is deleted, and the
\* first is pending again.
Complete(merge) ==
    /\ merge \in inflight
    /\ LET first == merge[1]
           second == merge[2] IN
         /\ \E shared \in 0..Min(MaxOverlap, Min(sizes[first], sizes[second])) :
              /\ sizes' = [sizes EXCEPT ![first] = sizes[first] + sizes[second] - shared]
              /\ serial' = (serial /\ shared = 0)
         /\ removed' = removed \cup {second}
         /\ pending' = pending \cup {first}
    /\ inflight' = inflight \ {merge}
    /\ UNCHANGED <<mergeLog, initSizes>>
    /\ UNCHANGED <<indexVars, searchVars, mergeVars>>

-----------------------------------------------------------------------------
\* Specifications

IdleIndex ==
    /\ pc = "new"
    /\ avgRepr = "none"
    /\ sources = << >>
    /\ ctor = "none"
    /\ documents = << >>
    /\ docFreqs = NoFreqs
    /\ avgDocLength = [num |-> 0, den |-> 1]
    /\ divisor = -1
    /\ ret = [op |-> "none"]
    /\ sQuery = [op |-> "none"]
    /\ task = << >>
    /\ ranks = << >>

IdleMerge ==
    /\ files = << >>
    /\ chunkSize = << >>
    /\ mergeIn = [merged |-> FALSE]

IdleSched ==
    /\ pending = {}
    /\ sizes = << >>
    /\ inflight = {}
    /\ mergeLog = << >>
    /\ removed = {}
    /\ initSizes = << >>
    /\ serial = TRUE

Init == IdleIndex /\ IdleMerge /\ IdleSched

\* The index, its calls one at a time.
NextIndex ==
    \/ ConstructFromFiles
    \/ ConstructFromDocs
    \/ GetAvgDocLength
    \/ Search
    \/ ClassifyKNN

SpecIndex == Init /\ [][NextIndex]_vars

\* The index, with the parallel loop of search step by step.
NextSearch ==
    \/ ConstructFromFiles
    \/ ConstructFromDocs
    \/ BeginSearch
    \/ \E idx \in DOMAIN task : ScoreStep(idx)
    \/ \E idx \in DOMAIN task : EnterCritical(idx)
    \/ \E idx \in DOMAIN task : InsertStep(idx)
    \/ EndSearch

SpecSearch == Init /\ [][NextSearch]_vars

-----------------------------------------------------------------------------
\* Claims about RAMIndex

\* The documents of the corpus that hold term t.
DocsWith(t) == {idx \in DocIds : documents[idx].freqs[t] > 0}

TotalLength == SumOver(DocIds, [idx \in DocIds |-> documents[idx].length])

\* The number of entries of rs that are e.
Copies(rs, e) == Cardinality({i \in 1..Len(rs) : rs[i] = e})

\* The entry search makes for document idx.
EntryOf(idx, query) == [key |-> Score(idx, query), value |-> Label(documents[idx])]

\* C4: after construction from pre-built Documents, docFreqs[t] is the number
\* of documents in which t appears, for every term t.
C4_DocFreqsCountDocuments ==
    (pc = "ready" /\ ctor = "docs") =>
        \A t \in Terms : docFreqs[t] = Cardinality(DocsWith(t))

\* The document a result stands for (names are distinct in the corpus).
DocOf(value) == CHOOSE idx \in DocIds : Label(documents[idx]) = value

\* Every result scores above zero.
AllPositive(rs) == \A i \in 1..Len(rs) : ~rs[i].key.nan /\ rs[i].key.v > 0

\* C5: classifyKNN returns a category that occurs most often among the
\* min(k, number of results) highest-scoring results (here: when all of
\* them score above zero).
C5_MajorityCategory ==
    (ret.op = "classifyKNN" /\ ret.k >= 1 /\ ret.ranks # << >> /\ AllPositive(ret.ranks)) =>
        \E top \in SUBSET (1..Len(ret.ranks)) :
            /\ Cardinality(top) = Min(ret.k, Len(ret.ranks))
            /\ \A i \in top, j \in (1..Len(ret.ranks)) \ top :
                   ~Less(ret.ranks[i].key, ret.ranks[j].key)
            /\ LET cat(i) == documents[DocOf(ret.ranks[i].value)].category
                   votes(c) == Cardinality({i \in top : cat(i) = c})
               IN \E i \in top :
                     /\ ret.best = cat(i)
                     /\ \A j \in top : votes(cat(j)) <= votes(cat(i))

\* C6: search returns one entry for every document with a non-zero score and
\* none for the others, and nothing at all for a query none of whose terms
\* appears in any document.
C6_NonZeroScoresOnly ==
    ret.op = "search" =>
        /\ \A idx \in DocIds :
             Copies(ret.ranks, EntryOf(idx, ret.query)) =
                 IF NonZero(Score(idx, ret.query)) THEN 1 ELSE 0
        /\ Len(ret.ranks) = Cardinality({idx \in DocIds : NonZero(Score(idx, ret.query))})
        /\ (\A t \in QueryTerms(ret.query) : DocsWith(t) = {}) => ret.ranks = << >>

\* C8: for N >= 1 documents the average document length, as stored and as
\* getAvgDocLength returns it, is (L1 + ... + LN) / N.
C8_AverageLength ==
    (ret.op = "getAvgDocLength" /\ Len(documents) >= 1) =>
        /\ ret.value * Len(documents) = TotalLength
        /\ avgDocLength.num * Len(documents) = TotalLength * avgDocLength.den

\* C9: the division of the average document length by the document count is
\* never performed with a count of zero.
C9_ZeroDocumentsGuarded == divisor # 0

\* C10: classifyKNN returns the "[no results]" label whenever search yields no
\* result, and for k >= 1 in that case only.
C10_SentinelIffNoResults ==
    ret.op = "classifyKNN" =>
        /\ ret.ranks = << >> => ret.best = NoResults
        /\ (ret.k >= 1 /\ ret.best = NoResults) => ret.ranks = << >>

\* C10 happens: a corpus with documents, a query with terms, no result, and
\* the sentinel returned for k >= 1.
C10_Witness ==
    /\ ret.op = "classifyKNN"
    /\ Len(documents) >= 1
    /\ QueryTerms(ret.query) # {}
    /\ ret.k >= 1
    /\ ret.ranks = << >>
    /\ ret.best = NoResults

\* The entries of ranks are in the order of their keys.
Sorted(rs) == \A i, j \in 1..Len(rs) : i < j => ~Less(rs[j].key, rs[i].key)

\* C7: in every interleaving of the iterations of search at most one is
\* inside the critical block, ranks is sorted by score, and at the end it
\* holds exactly one entry for every document with a non-zero score.
C7_SerializedSortedInsert ==
    /\ pc = "searching" =>
         Cardinality({idx \in DOMAIN task : task[idx] = "critical"}) <= 1
    /\ pc \in {"searching", "searched"} => Sorted(ranks)
    /\ pc = "searched" =>
         /\ \A idx \in DocIds :
              Copies(ranks, EntryOf(idx, sQuery)) =
                  IF NonZero(Score(idx, sQuery)) THEN 1 ELSE 0
         /\ Len(ranks) = Cardinality({idx \in DocIds : NonZero(Score(idx, sQuery))})

\* C7 happens: an iteration waits for the block while another is inside it,
\* and the entry of a later document is already in ranks.
C7_Witness ==
    /\ pc = "searching"
    /\ \E i, j \in DOMAIN task :
         /\ i < j
         /\ task[i] = "critical"
         /\ task[j] = "done"
         /\ ranks = <<EntryOf(j, sQuery)>>
         /\ Less(Score(i, sQuery), Score(j, sQuery))

-----------------------------------------------------------------------------
\* Specifications of the chunk and of the scheduler

\* Two chunks over any two postings files.
InitMerge ==
    /\ IdleIndex
    /\ IdleSched
    /\ \E a, b \in PostingsFiles : files = [A |-> File(a), B |-> File(b)]
    /\ chunkSize = [c \in ChunkPaths |-> FileSize(files[c].postings)]
    /\ mergeIn = [merged |-> FALSE]

NextMerge == \E self, other \in ChunkPaths : MergeWith(self, other)

SpecMerge == InitMerge /\ [][NextMerge]_vars

\* Two to MaxChunks pending chunks of any sizes, and idle workers.
InitSched ==
    /\ IdleIndex
    /\ IdleMerge
    /\ \E n \in 2..MaxChunks : sizes \in [1..n -> 1..MaxChunkSize]
    /\ pending = DOMAIN sizes
    /\ inflight = {}
    /\ mergeLog = << >>
    /\ removed = {}
    /\ initSizes = sizes
    /\ serial = TRUE

NextSched ==
    \/ Select
    \/ \E merge \in inflight : Complete(merge)

SpecSched == InitSched /\ [][NextSched]_vars

-----------------------------------------------------------------------------
\* Claims about the chunk and the scheduler

\* The count of (pk, sk) in a postings file, 0 when it is not there.
CountIn(file, pk, sk) ==
    SumOver(1..Len(file),
        [i \in 1..Len(file) |->
            IF file[i].pk # pk THEN 0
            ELSE SumOver(1..Len(file[i].pairs),
                    [j \in 1..Len(file[i].pairs) |->
                        IF file[i].pairs[j].sk = sk THEN file[i].pairs[j].count ELSE 0])])

\* A validly sorted sequence of postings records.
ValidPostings(file) ==
    /\ \A i \in 1..Len(file) :
         /\ file[i].pairs # << >>
         /\ \A j \in 1..Len(file[i].pairs) : file[i].pairs[j].count >= 1
         /\ \A j \in 1..(Len(file[i].pairs) - 1) :
              file[i].pairs[j].sk < file[i].pairs[j + 1].sk
    /\ \A i \in 1..(Len(file) - 1) : file[i].pk < file[i + 1].pk

\* C1: after A.merge_with(B) the file of A is a validly sorted postings
\* sequence that holds every (primary key, secondary key) of A or B with the
\* sum of its counts, the size of A is that of its file, and the file of B no
\* longer exists.
C1_MergeIsSortedUnion ==
    mergeIn.merged =>
        /\ files[mergeIn.self].exists
        /\ ValidPostings(files[mergeIn.self].postings)
        /\ \A pk \in PrimaryKeys, sk \in SecondaryKeys :
             CountIn(files[mergeIn.self].postings, pk, sk) =
                 CountIn(mergeIn.a, pk, sk) + CountIn(mergeIn.b, pk, sk)
        /\ chunkSize[mergeIn.self] = FileSize(files[mergeIn.self].postings)
        /\ ~files[mergeIn.other].exists

\* C1 happens: the merged files share a (primary key, secondary key) pair,
\* and each holds a pair the other has not.
C1_Witness ==
    /\ mergeIn.merged
    /\ \E pk \in PrimaryKeys, sk \in SecondaryKeys :
         CountIn(mergeIn.a, pk, sk) > 0 /\ CountIn(mergeIn.b, pk, sk) > 0
    /\ \E pk \in PrimaryKeys, sk \in SecondaryKeys :
         CountIn(mergeIn.a, pk, sk) > 0 /\ CountIn(mergeIn.b, pk, sk) = 0
    /\ \E pk \in PrimaryKeys, sk \in SecondaryKeys :
         CountIn(mergeIn.a, pk, sk) = 0 /\ CountIn(mergeIn.b, pk, sk) > 0

\* The chunks some worker is merging.
InFlight == UNION {{merge[1], merge[2]} : merge \in inflight}

\* The merge sequence of the sizes 1, 2, 3, 4: 1+2, 3+3, 6+4.
ExampleSizes == <<1, 2, 3, 4>>
ExampleLog == << <<1, 2>>, <<3, 3>>, <<4, 6>> >>

C3_OneMergePerChunk ==
    /\ \A merge \in inflight : merge[1] # merge[2]
    /\ \A m, n \in inflight : m # n => {m[1], m[2]} \cap {n[1], n[2]} = {}
    /\ InFlight \cap pending = {}
    /\ removed \cap (pending \cup InFlight) = {}

\* C3 happens: two merges are in flight at once, on four different chunks.
C3_Witness ==
    /\ Cardinality(inflight) = 2
    /\ Cardinality(InFlight) = 4

====
